---- MODULE Spec2Model ----
(***************************************************************************)
(* The embeddable chat widget of static/widget.js as a state machine.      *)
(*                                                                         *)
(* Strings are sequences of atoms: the text field holds a sequence of      *)
(* characters, an answer is a sequence of whitespace-separated words, a    *)
(* message such as "Invalid key" is a one-atom sequence.  A DOM element of *)
(* the message log is a record [kind, nodes, id]; nodes are the child      *)
(* nodes of the element, each a record [tag, text].                        *)
(*                                                                         *)
(* The event loop is modelled as it schedules the code: a user-interface   *)
(* event or a network completion is a task and runs only when no promise   *)
(* reaction (microtask) is pending; promise reactions run one at a time.   *)
(***************************************************************************)
EXTENDS Integers, Sequences, FiniteSets, TLC

VARIABLES
    page,       \* "unloaded" before the script has run, "ready" after
    storage,    \* sessionStorage[SESSION_KEY], NoSession when absent
    sessionId,  \* var sessionId
    open,       \* win.classList contains "open"
    focused,    \* the text field has input focus
    input,      \* input.value
    log,        \* children of the .sc-messages element, in order
    sending,    \* var sending
    disabled,   \* sendBtn.disabled
    reqs,       \* the fetch calls of this page, each with its promise chain
    lastEvent   \* whether the last user-interface event called send()

vars == <<page, storage, sessionId, open, focused, input, log, sending,
          disabled, reqs, lastEvent>>

\* Bounds of the model.
MaxLen == 1     \* characters the text field holds
MaxLog == 5     \* elements the message log holds

----------------------------------------------------------------------------
\* Values

NoSession == <<"null">>
UUIDs == {<<"uuid-1">>, <<"uuid-2">>}

Undefined == [t |-> "undefined", s |-> <<>>]
Str(s) == [t |-> "string", s |-> s]

\* JavaScript truthiness of a value that is undefined or a string.
Truthy(v) == v.t = "string" /\ v.s # <<>>

Whitespace == {"\n"}
KeyEvents == {[key |-> "Enter", shiftKey |-> FALSE],
              [key |-> "Enter", shiftKey |-> TRUE],
              [key |-> "a", shiftKey |-> FALSE]}

\* The character the browser inserts for a key whose default is not prevented.
KeyChar(e) == IF e.key = "Enter" THEN "\n" ELSE e.key

\* Responses the server may send: an HTTP status and a raw body.
Responses ==
    {[status |-> 200, body |-> "{answer:Hello}"],
     [status |-> 200, body |-> "{answer:Hello,source_url:}"],
     [status |-> 200, body |-> "{answer:see http://x.com for more,source_url:https://ex.com}"],
     [status |-> 200, body |-> "{}"],
     [status |-> 200, body |-> "<html>"],
     [status |-> 401, body |-> "{detail:Invalid key}"],
     [status |-> 500, body |-> "{}"],
     [status |-> 502, body |-> "<html>"]}

\* Response.ok
ResOk(res) == res.status \in 200..299

Obj(answer, source_url, detail) ==
    [ok |-> TRUE, answer |-> answer, source_url |-> source_url, detail |-> detail]

ParseFailure == [ok |-> FALSE, answer |-> Undefined, source_url |-> Undefined,
                 detail |-> Undefined]

\* JSON.parse of a raw body, as res.json() applies it.
JSONparse(raw) ==
    CASE raw = "{}" -> Obj(Undefined, Undefined, Undefined)
      [] raw = "{answer:Hello}" -> Obj(Str(<<"Hello">>), Undefined, Undefined)
      [] raw = "{answer:Hello,source_url:}" ->
            Obj(Str(<<"Hello">>), Str(<<>>), Undefined)
      [] raw = "{answer:see http://x.com for more,source_url:https://ex.com}" ->
            Obj(Str(<<"see", "http://x.com", "for", "more">>),
                Str(<<"https://ex.com">>), Undefined)
      [] raw = "{detail:Invalid key}" ->
            Obj(Undefined, Undefined, Str(<<"Invalid key">>))
      [] OTHER -> ParseFailure

\* Messages of the errors the platform raises; their text is the engine's.
SyntaxErrorMessage == <<"Unexpected token < in JSON at position 0">>
TypeErrorMessage == <<"Cannot read properties of undefined (reading 'replace')">>
NetworkErrorMessages == {<<"Failed to fetch">>, <<>>}

RequestFailed == <<"Request failed">>
SomethingWentWrong == <<"Something went wrong.">>

\* What the network has returned for a request so far.
Pending == [kind |-> "pending", status |-> 0, body |-> "", message |-> <<>>]
Rejected(msg) == [kind |-> "rejected", status |-> 0, body |-> "", message |-> msg]
Received(res) ==
    [kind |-> "response", status |-> res.status, body |-> res.body, message |-> <<>>]

----------------------------------------------------------------------------
\* Pure helpers

RECURSIVE trimStart(_)
trimStart(s) ==
    IF s # <<>> /\ Head(s) \in Whitespace THEN trimStart(Tail(s)) ELSE s

RECURSIVE trimEnd(_)
trimEnd(s) ==
    IF s # <<>> /\ s[Len(s)] \in Whitespace
    THEN trimEnd(SubSeq(s, 1, Len(s) - 1))
    ELSE s

trimNone(s) == s

\* String.prototype.trim
trim(s) == trimEnd(trimStart(s))

\* The regular expression of linkify matches a word that starts with
\* http:// or https://.
IsUrl(w) == w \in {"http://x.com", "https://ex.com"}

TextNode(text) == [tag |-> "#text", text |-> text]
Anchor(text) == [tag |-> "a", text |-> text]

linkify(text) ==
    [i \in 1..Len(text) |->
        IF IsUrl(text[i]) THEN Anchor(<<text[i]>>) ELSE TextNode(<<text[i]>>)]

Element(kind, nodes, id) == [kind |-> kind, nodes |-> nodes, id |-> id]

addMessage(l, text, role) ==
    Append(l, Element(role,
                      IF role = "bot" THEN linkify(text) ELSE <<TextNode(text)>>,
                      0))

addSourceAlways(l, url) ==
    Append(l, Element("source", <<TextNode(<<"Source: ">>), Anchor(url.s)>>, 0))

addSource(l, url) ==
    IF ~Truthy(url)
    THEN l
    ELSE Append(l, Element("source", <<TextNode(<<"Source: ">>), Anchor(url.s)>>, 0))

showTyping(l, id) == Append(l, Element("typing", <<>>, id))

showError(l, msg) == Append(l, Element("error", <<TextNode(msg)>>, 0))

\* typing.remove(): detaches that element; a no-op when it is detached already.
removeTyping(l, id) ==
    SelectSeq(l, LAMBDA el : ~(el.kind = "typing" /\ el.id = id))

----------------------------------------------------------------------------
\* The event loop

MicroPcs == {"then1", "thrower", "then2", "catch", "finally"}

MicrotaskPending == \E i \in 1..Len(reqs) : reqs[i].pc \in MicroPcs

TaskMayRun == page = "ready" /\ ~MicrotaskPending

----------------------------------------------------------------------------
\* Initialization and page lifetime

Init ==
    /\ page = "unloaded"
    /\ storage = NoSession
    /\ sessionId = NoSession
    /\ open = FALSE
    /\ focused = FALSE
    /\ input = <<>>
    /\ log = <<>>
    /\ sending = FALSE
    /\ disabled = FALSE
    /\ reqs = <<>>
    /\ lastEvent = "none"

ObtainSessionIdAlwaysNew(stored) == UUIDs

\* sessionStorage.getItem(SESSION_KEY) || crypto.randomUUID(): the values the
\* expression may yield.
ObtainSessionId(stored) == IF stored # NoSession THEN {stored} ELSE UUIDs

\* The script runs: the whole IIFE up to the listeners being attached.
Load ==
    /\ page = "unloaded"
    /\ page' = "ready"
    /\ \E id \in ObtainSessionId(storage) :
          /\ sessionId' = id
          /\ storage' = id
    /\ UNCHANGED <<open, focused, input, log, sending, disabled, reqs, lastEvent>>

\* The tab navigates or reloads: the platform discards the page, its pending
\* calls and continuations; tab storage stays.
Unload ==
    /\ TaskMayRun
    /\ page' = "unloaded"
    /\ sessionId' = NoSession
    /\ open' = FALSE
    /\ focused' = FALSE
    /\ input' = <<>>
    /\ log' = <<>>
    /\ sending' = FALSE
    /\ disabled' = FALSE
    /\ reqs' = <<>>
    /\ lastEvent' = "none"
    /\ UNCHANGED storage

----------------------------------------------------------------------------
\* User-interface events

toggleOpen ==
    /\ TaskMayRun
    /\ open' = ~open
    /\ focused' = (focused \/ ~open)
    /\ lastEvent' = "other"
    /\ UNCHANGED <<page, storage, sessionId, input, log, sending, disabled, reqs>>

SendBlockedOnEmptyOnly(text) == text = <<>>

\* if (!text || sending) return;
SendBlocked(text) == text = <<>> \/ sending

\* fetch(...): the request as issued, with its promise chain at its start.
fetch(text, sid) ==
    [question |-> text, session_id |-> sid, response |-> Pending,
     pc |-> "fetch", err |-> <<>>]

\* send(): the values of the widget state when the call returns.
send ==
    LET text == trim(input) IN
    IF SendBlocked(text)
    THEN [log |-> log, input |-> input, sending |-> sending,
          disabled |-> disabled, reqs |-> reqs]
    ELSE [log |-> showTyping(addMessage(log, text, "user"), Len(reqs) + 1),
          input |-> <<>>,
          sending |-> TRUE,
          disabled |-> TRUE,
          reqs |-> Append(reqs, fetch(text, sessionId))]

\* The model stops accepting submissions when the log could outgrow MaxLog.
LogRoom == SendBlocked(trim(input)) \/ Len(log) + 3 <= MaxLog

\* Click on the send control; a disabled button dispatches no click event.
ClickSend ==
    /\ TaskMayRun
    /\ ~disabled
    /\ LogRoom
    /\ log' = send.log
    /\ input' = send.input
    /\ sending' = send.sending
    /\ disabled' = send.disabled
    /\ reqs' = send.reqs
    /\ lastEvent' = "send"
    /\ UNCHANGED <<page, storage, sessionId, open, focused>>

IsSubmitKey(e) == e.key = "Enter" /\ ~e.shiftKey

\* e.preventDefault() is called exactly for the submit key.
DefaultPrevented(e) == IsSubmitKey(e)

\* keydown on the text field: the listener, then the key's default action.
Keydown(e) ==
    LET after == IF IsSubmitKey(e)
                 THEN send
                 ELSE [log |-> log, input |-> input, sending |-> sending,
                       disabled |-> disabled, reqs |-> reqs]
    IN  /\ TaskMayRun
        /\ IsSubmitKey(e) => LogRoom
        /\ ~DefaultPrevented(e) => Len(after.input) < MaxLen
        /\ log' = after.log
        /\ input' = IF DefaultPrevented(e)
                    THEN after.input
                    ELSE Append(after.input, KeyChar(e))
        /\ sending' = after.sending
        /\ disabled' = after.disabled
        /\ reqs' = after.reqs
        /\ lastEvent' = IF IsSubmitKey(e) THEN "send" ELSE "other"
        /\ UNCHANGED <<page, storage, sessionId, open, focused>>

----------------------------------------------------------------------------
\* The network and the promise chain of one request

Step(i, pc, err) == [reqs EXCEPT ![i].pc = pc, ![i].err = err]

Awaiting(i, pc) == i \in 1..Len(reqs) /\ reqs[i].pc = pc

\* The server's response arrives: the fetch promise fulfils.
FetchResolve(i, res) ==
    /\ TaskMayRun
    /\ Awaiting(i, "fetch")
    /\ reqs' = [reqs EXCEPT ![i].pc = "then1", ![i].response = Received(res)]
    /\ UNCHANGED <<page, storage, sessionId, open, focused, input, log, sending,
                   disabled, lastEvent>>

\* The request fails in transport: the fetch promise rejects, the two then
\* reactions pass the rejection on to the catch reaction.
FetchReject(i, msg) ==
    /\ TaskMayRun
    /\ Awaiting(i, "fetch")
    /\ reqs' = [reqs EXCEPT ![i].pc = "catch", ![i].response = Rejected(msg),
                            ![i].err = msg]
    /\ UNCHANGED <<page, storage, sessionId, open, focused, input, log, sending,
                   disabled, lastEvent>>

\* .then(function (res) {...}): both branches start res.json().
Then1(i) ==
    /\ page = "ready"
    /\ Awaiting(i, "then1")
    /\ reqs' = Step(i, "json", <<>>)
    /\ UNCHANGED <<page, storage, sessionId, open, focused, input, log, sending,
                   disabled, lastEvent>>

\* res.json() settles: it rejects with a SyntaxError on a malformed body,
\* else fulfils with the parsed value, which goes to the error thrower of a
\* non-success response and to the second then reaction of a success.
JsonSettle(i) ==
    /\ TaskMayRun
    /\ Awaiting(i, "json")
    /\ reqs' = IF ~JSONparse(reqs[i].response.body).ok
               THEN Step(i, "catch", SyntaxErrorMessage)
               ELSE IF ResOk(reqs[i].response)
                    THEN Step(i, "then2", <<>>)
                    ELSE Step(i, "thrower", <<>>)
    /\ UNCHANGED <<page, storage, sessionId, open, focused, input, log, sending,
                   disabled, lastEvent>>

\* throw new Error(err.detail || "Request failed")
Thrower(i) ==
    /\ page = "ready"
    /\ Awaiting(i, "thrower")
    /\ LET err == JSONparse(reqs[i].response.body) IN
       reqs' = Step(i, "catch",
                    IF Truthy(err.detail) THEN err.detail.s ELSE RequestFailed)
    /\ UNCHANGED <<page, storage, sessionId, open, focused, input, log, sending,
                   disabled, lastEvent>>

\* .then(function (data) {...}); linkify throws a TypeError on an answer
\* that is no string, after the typing indicator is removed.
Then2(i) ==
    /\ page = "ready"
    /\ Awaiting(i, "then2")
    /\ LET data == JSONparse(reqs[i].response.body)
           l == removeTyping(log, i)
       IN  IF data.answer.t = "string"
           THEN /\ log' = addSource(addMessage(l, data.answer.s, "bot"),
                                    data.source_url)
                /\ reqs' = Step(i, "finally", <<>>)
           ELSE /\ log' = l
                /\ reqs' = Step(i, "catch", TypeErrorMessage)
    /\ UNCHANGED <<page, storage, sessionId, open, focused, input, sending,
                   disabled, lastEvent>>

CatchKeepsTyping(i) ==
    /\ page = "ready"
    /\ Awaiting(i, "catch")
    /\ log' = showError(log, IF reqs[i].err # <<>> THEN reqs[i].err
                                                  ELSE SomethingWentWrong)
    /\ reqs' = Step(i, "finally", <<>>)
    /\ UNCHANGED <<page, storage, sessionId, open, focused, input, sending,
                   disabled, lastEvent>>

CatchAndRetry(i) ==
    /\ page = "ready"
    /\ Awaiting(i, "catch")
    /\ log' = showError(removeTyping(log, i),
                        IF reqs[i].err # <<>> THEN reqs[i].err
                                              ELSE SomethingWentWrong)
    /\ reqs' = Append(Step(i, "finally", <<>>),
                      fetch(reqs[i].question, sessionId))
    /\ UNCHANGED <<page, storage, sessionId, open, focused, input, sending,
                   disabled, lastEvent>>

\* .catch(function (err) {...})
Catch(i) ==
    /\ page = "ready"
    /\ Awaiting(i, "catch")
    /\ log' = showError(removeTyping(log, i),
                        IF reqs[i].err # <<>> THEN reqs[i].err
                                              ELSE SomethingWentWrong)
    /\ reqs' = Step(i, "finally", <<>>)
    /\ UNCHANGED <<page, storage, sessionId, open, focused, input, sending,
                   disabled, lastEvent>>

FinallyKeepsGuard(i) ==
    /\ page = "ready"
    /\ Awaiting(i, "finally")
    /\ disabled' = FALSE
    /\ reqs' = Step(i, "done", <<>>)
    /\ UNCHANGED <<page, storage, sessionId, open, focused, input, log, sending,
                   lastEvent>>

\* .finally(function () {...})
Finally(i) ==
    /\ page = "ready"
    /\ Awaiting(i, "finally")
    /\ sending' = FALSE
    /\ disabled' = FALSE
    /\ reqs' = Step(i, "done", <<>>)
    /\ UNCHANGED <<page, storage, sessionId, open, focused, input, log,
                   lastEvent>>

Slots == 1..MaxLog

Microtask == \E i \in Slots : Then1(i) \/ Thrower(i) \/ Then2(i) \/ Catch(i) \/ Finally(i)

BodyRead == \E i \in Slots : JsonSettle(i)

Next ==
    \/ Load
    \/ Unload
    \/ toggleOpen
    \/ ClickSend
    \/ \E e \in KeyEvents : Keydown(e)
    \/ \E i \in Slots, res \in Responses : FetchResolve(i, res)
    \/ \E i \in Slots, msg \in NetworkErrorMessages : FetchReject(i, msg)
    \/ \E i \in Slots : Then1(i)
    \/ \E i \in Slots : JsonSettle(i)
    \/ \E i \in Slots : Thrower(i)
    \/ \E i \in Slots : Then2(i)
    \/ \E i \in Slots : Catch(i)
    \/ \E i \in Slots : Finally(i)

Spec == Init /\ [][Next]_vars

\* The event loop runs every queued promise reaction, and the body of a
\* response that has arrived is read to its end.
LiveSpec == Spec /\ WF_vars(Microtask) /\ WF_vars(BodyRead)

----------------------------------------------------------------------------
\* Vocabulary of the properties

IsBlank(s) == \A k \in 1..Len(s) : s[k] \in Whitespace

InFlight == {i \in 1..Len(reqs) : reqs[i].pc # "done"}

\* Requests whose outcome has been handled: the then or catch reaction ran.
Handled == {i \in 1..Len(reqs) : reqs[i].pc \in {"finally", "done"}}

UserPositions == {p \in 1..Len(log) : log[p].kind = "user"}

TypingPositions == {p \in 1..Len(log) : log[p].kind = "typing"}

\* Position in the log of the i-th user message.
Pos(i) == CHOOSE p \in UserPositions :
              Cardinality({q \in UserPositions : q <= p}) = i

\* The log entries between the i-th user message and the next one.
Outcome(i) ==
    SubSeq(log, Pos(i) + 1,
           IF i = Cardinality(UserPositions) THEN Len(log) ELSE Pos(i + 1) - 1)

Kinds(els) == [k \in 1..Len(els) |-> els[k].kind]

RECURSIVE TextContent(_)
TextContent(nodes) ==
    IF nodes = <<>> THEN <<>> ELSE Head(nodes).text \o TextContent(Tail(nodes))

GenericMessages == {RequestFailed, SomethingWentWrong}

\* A step in which the send control is clicked or the submit key is pressed.
SendCall == ClickSend \/ \E e \in KeyEvents : IsSubmitKey(e) /\ Keydown(e)

----------------------------------------------------------------------------
\* C1: at most one chat request is in flight in every reachable state: no
\* fetch is issued while an earlier one has not reached its finally handler.
C1_AtMostOneInFlight == Cardinality(InFlight) <= 1

\* A second request is in flight after the first finished, and a submission
\* attempted meanwhile was dropped.
C1_Witness ==
    /\ Len(reqs) = 2
    /\ reqs[1].pc = "done"
    /\ reqs[2].pc = "fetch"
    /\ lastEvent = "send"
    /\ ~IsBlank(input)

\* C2: once a request has ended, in whichever way, the in-flight guard is
\* eventually false again and the send control enabled; and a submission of
\* non-blank text made while the guard is false is accepted and issues a new
\* request.
C2_GuardReleased ==
    /\ (\E i \in Slots : i <= Len(reqs) /\ reqs[i].response.kind # "pending"
                                        /\ reqs[i].pc # "done")
          ~> (~sending /\ ~disabled)
    /\ [][(SendCall /\ ~sending /\ ~IsBlank(input)) =>
              /\ Len(reqs') = Len(reqs) + 1
              /\ reqs'[Len(reqs')].pc = "fetch"
              /\ reqs'[Len(reqs')].question = trim(input)]_vars

\* A request ended in a network rejection and a later submission was
\* accepted.
C2_Witness ==
    /\ Len(reqs) = 2
    /\ reqs[1].pc = "done"
    /\ reqs[1].response.kind = "rejected"
    /\ ~sending
    /\ reqs[2].pc = "done"

\* C3: a send() call with empty or whitespace-only text appends no user
\* message and issues no request, whatever the widget state.
C3_BlankNeverSent ==
    [][(SendCall /\ IsBlank(input)) => UNCHANGED <<log, reqs, sending, disabled>>]_vars

\* send() was called on whitespace-only text while a request was pending.
C3_Witness ==
    /\ lastEvent = "send"
    /\ input # <<>>
    /\ IsBlank(input)
    /\ sending
    /\ Len(reqs) = 1

\* C4: a non-success response yields an inline error and no bot message; the
\* error text is the body's detail when the body parses and has one, and a
\* generic fallback message when detail is absent or the body does not parse.
C4_ServerErrorText ==
    \A i \in Handled :
        (reqs[i].response.kind = "response" /\ ~ResOk(reqs[i].response)) =>
            LET err == JSONparse(reqs[i].response.body)
                o == Outcome(i)
            IN  /\ Kinds(o) = <<"error">>
                /\ IF err.ok /\ err.detail.t = "string"
                   THEN TextContent(o[1].nodes) = err.detail.s
                   ELSE TextContent(o[1].nodes) \in GenericMessages

\* C5: a network rejection, or a success response whose body is not valid
\* JSON, yields an inline error whose text is a generic message, independent
\* of the underlying failure.
C5_TransportErrorGeneric ==
    \A i \in Handled :
        (\/ reqs[i].response.kind = "rejected"
         \/ /\ reqs[i].response.kind = "response"
            /\ ResOk(reqs[i].response)
            /\ ~JSONparse(reqs[i].response.body).ok) =>
            LET o == Outcome(i)
            IN  /\ Kinds(o) = <<"error">>
                /\ TextContent(o[1].nodes) \in GenericMessages

\* C6: a success response whose body has an answer string yields exactly one
\* bot message carrying the answer and no error, followed directly by a
\* citation line carrying the URL if and only if source_url is non-empty.
C6_AnswerRendered ==
    \A i \in Handled :
        LET data == JSONparse(reqs[i].response.body) IN
        (/\ reqs[i].response.kind = "response"
         /\ ResOk(reqs[i].response)
         /\ data.ok
         /\ data.answer.t = "string") =>
            LET o == Outcome(i)
                cited == data.source_url.t = "string" /\ data.source_url.s # <<>>
            IN  /\ Kinds(o) = IF cited THEN <<"bot", "source">> ELSE <<"bot">>
                /\ TextContent(o[1].nodes) = data.answer.s
                /\ cited => \E n \in 1..Len(o[2].nodes) :
                                /\ o[2].nodes[n].tag = "a"
                                /\ o[2].nodes[n].text = data.source_url.s

\* An answer without citation was rendered, then an answer with one.
C6_Witness ==
    /\ Len(reqs) = 2
    /\ Handled = {1, 2}
    /\ Kinds(log) = <<"user", "bot", "user", "bot", "source">>

\* C7: the session identifier is fixed at load time, generated only when tab
\* storage holds none and reused otherwise; it equals the stored value and
\* every request of the page carries it.
C7_SessionStable ==
    [][/\ page' = "ready" =>
            /\ sessionId' = storage'
            /\ sessionId' \in UUIDs
            /\ \A i \in 1..Len(reqs') : reqs'[i].session_id = sessionId'
       /\ storage # NoSession => storage' = storage
       /\ (page = "ready" /\ page' = "ready") => sessionId' = sessionId]_vars

\* Two requests were issued, one failed, both carry the stored identifier.
C7_Witness ==
    /\ Len(reqs) = 2
    /\ reqs[1].response.kind = "response"
    /\ ~ResOk(reqs[1].response)
    /\ reqs[2].pc = "fetch"
    /\ reqs[1].session_id = storage
    /\ reqs[2].session_id = storage

\* C8: the number of requests issued equals the number of accepted
\* submissions, that is of user messages in the log: nothing is re-sent
\* automatically and a dropped submission is never sent later.
C8_OneRequestPerSubmission == Len(reqs) = Cardinality(UserPositions)

\* A request failed and was handled, the user typed again, and no request
\* was issued since.
C8_Witness ==
    /\ Len(reqs) = 1
    /\ reqs[1].pc = "done"
    /\ reqs[1].response.kind = "rejected"
    /\ input # <<>>

\* C9: a send() call with non-blank text while a request is pending changes
\* neither the log, the text field, the in-flight guard nor the disabled
\* state of the send control.
C9_PendingSendIsNoOp ==
    [][(SendCall /\ sending /\ ~IsBlank(input)) =>
          UNCHANGED <<log, input, sending, disabled, reqs>>]_vars

\* The submit key was pressed on non-blank text while the first request was
\* awaiting its response.
C9_Witness ==
    /\ lastEvent = "send"
    /\ sending
    /\ ~IsBlank(input)
    /\ Len(reqs) = 1
    /\ reqs[1].pc = "fetch"

\* C10: the log holds at most one typing indicator, and only while its
\* request is unhandled; a handled exchange is one user message followed by
\* exactly one outcome, a bot message (with an optional citation line) or an
\* inline error, and no typing indicator.
C10_OneOutcomePerExchange ==
    /\ Cardinality(TypingPositions) <= 1
    /\ \A p \in TypingPositions :
          /\ log[p].id \in 1..Len(reqs)
          /\ log[p].id \notin Handled
    /\ Cardinality(UserPositions) = Len(reqs)
    /\ \A i \in Handled :
          /\ TextContent(log[Pos(i)].nodes) = reqs[i].question
          /\ Kinds(Outcome(i)) \in {<<"bot">>, <<"bot", "source">>, <<"error">>}

\* The first exchange ended in an error, the second shows its typing
\* indicator while its body is being read.
C10_Witness ==
    /\ Len(reqs) = 2
    /\ reqs[2].pc = "json"
    /\ Kinds(log) = <<"user", "error", "user", "typing">>

====
